---- MODULE Spec2Model ----
(***************************************************************************)
(* Model of the batch minter: src/src/main.ts (main, mintBatch and the     *)
(* utilities signAndSendOnce, signAndSend, signAndSendReturningEvent,      *)
(* getEventFromEventsOrThrow, getEventFromEvents) and the MultiTokens      *)
(* client of src/unnamed/part_001.                                         *)
(*                                                                         *)
(* The program is one JavaScript thread.  A step of the model is one       *)
(* macrotask: an answer of the network (a chain-head fetch, the            *)
(* sign-and-broadcast promise, one status of a status stream) together     *)
(* with every continuation the answer wakes up, run until the thread       *)
(* suspends at its next await.                                             *)
(*                                                                         *)
(* Spec is the program run from its environment configuration; LiveSpec    *)
(* adds the fairness of the event loop; LowBatchSpec starts it with a      *)
(* batch size below 1; MatcherSpec and SubmitterSpec call the exported     *)
(* utilities getEventFromEvents(OrThrow) and signAndSend on their own.     *)
(***************************************************************************)
EXTENDS Integers, Sequences, FiniteSets, TLC

VARIABLES
  cfg,          \* the environment configuration read at main.ts:8-12
  pc,           \* where main() is suspended
  collection,   \* loop counter of main.ts:44
  j,            \* loop counter of main.ts:64
  phase,        \* "full": inside the loop of main.ts:64, "rest": in the call of main.ts:77
  created,      \* the latest creation that returned: its loop index, the events of
                \* main.ts:235 and const collectionCreatedEvent of main.ts:49
  collectionId, \* const collectionId of main.ts:56: <<id>>, or <<>> before the first creation
  batches,      \* the mintBatch calls made for the current collectionId, in order
  call,         \* the latest signAndSend call: attempt parameter, tries, outcome
  returning,    \* the latest signAndSendReturningEvent call: descriptor, outcome
  attempts,     \* the signAndSendOnce invocations whose promise or stream is live
  nOnce,        \* number of signAndSendOnce invocations so far
  chainHead,    \* block number the next chain-head fetch answers with
  matcher       \* a direct call of the Event Matcher: its arguments and results

vars == <<cfg, pc, collection, j, phase, created, collectionId, batches, call,
          returning, attempts, nOnce, chainHead, matcher>>

----------------------------------------------------------------------------
(* Bounds of the model *)

MaxCollections == 2     \* COLLECTION_COUNT is drawn from 0..MaxCollections
MaxTokens == 4          \* TOKEN_COUNT_PER_COLLECTION is drawn from 0..MaxTokens
MaxBatch == 3           \* TOKEN_COUNT_IN_BATCH is drawn from 1..MaxBatch, and 251
MaxStatuses == 2        \* statuses one status stream delivers
MaxOpen == 0            \* earlier invocations whose stream is followed while a later one runs
MaxEvents == 3          \* events of a sequence handed to the Event Matcher directly
MinBatch == 3           \* unchecked batch sizes are drawn from -MinBatch..0
MaxCalls == 2           \* direct calls of signAndSend that reach signAndSendOnce

(* Program constants *)

BatchLimit == 250       \* main.ts:14
MaxAttempt == 10        \* main.ts:207 (utils: attempt > 10)
EraPeriod == 1024       \* main.ts:175
AutoNonce == 0 - 1      \* main.ts:175 (nonce: -1)

----------------------------------------------------------------------------
(* JavaScript arithmetic and string conversions *)

\* a JavaScript number that is an integer, Infinity or NaN
Finite(n) == [kind |-> "finite", v |-> n]
Infinity == [kind |-> "Infinity", v |-> 0]
NaN == [kind |-> "NaN", v |-> 0]

\* Math.floor(a / b) for integers a >= 0 and b
JsFloorDiv(a, b) ==
  IF b > 0 THEN Finite(a \div b)
  ELSE IF b < 0 THEN Finite(0 - ((a + (0 - b) - 1) \div (0 - b)))
  ELSE IF a = 0 THEN NaN
  ELSE Infinity

\* a % b for integers a >= 0 and b: the remainder has the sign of a
JsMod(a, b) ==
  IF b > 0 THEN Finite(a % b)
  ELSE IF b < 0 THEN Finite(a % (0 - b))
  ELSE NaN

\* n < x and x > n for an integer n and a number x: false whenever x is NaN
JsLess(n, x) == x.kind = "Infinity" \/ (x.kind = "finite" /\ n < x.v)
JsGreater(x, n) == x.kind = "Infinity" \/ (x.kind = "finite" /\ x.v > n)

DigitChars == <<"0", "1", "2", "3", "4", "5", "6", "7", "8", "9">>

RECURSIVE Decimal(_)
\* `${n}` for an integer n >= 0: its decimal digits, most significant first
Decimal(n) ==
  IF n < 10 THEN <<DigitChars[n + 1]>>
  ELSE Decimal(n \div 10) \o <<DigitChars[(n % 10) + 1]>>

DigitValue(c) == (CHOOSE i \in 1..10 : DigitChars[i] = c) - 1

RECURSIVE Number(_)
\* Number(x) for a codec value whose text is the decimal string x
Number(x) ==
  IF Len(x) = 0 THEN 0
  ELSE Number(SubSeq(x, 1, Len(x) - 1)) * 10 + DigitValue(x[Len(x)])

----------------------------------------------------------------------------
(* What the network hands back: chain events, transaction statuses *)

\* an Event of @polkadot/types: its pallet (section), its name (method), its data
Event(section, method, data) == [section |-> section, method |-> method, data |-> data]

CollectionCreatedEvent(id) == Event("multiTokens", "CollectionCreated", <<Decimal(id), "owner">>)
ExtrinsicSuccess == Event("system", "ExtrinsicSuccess", <<>>)
MintedEvent == Event("multiTokens", "Minted", <<Decimal(7)>>)
ForeignCreated == Event("marketplace", "CollectionCreated", <<Decimal(9)>>)

\* api.events.multiTokens.CollectionCreated, the descriptor of main.ts:52
CollectionCreated == [section |-> "multiTokens", method |-> "CollectionCreated"]

\* the event lists the network attaches to an inclusion, by kind of transaction
EventLists(kind) ==
  IF kind = "create"
  THEN { <<ExtrinsicSuccess>>,
         <<ForeignCreated, CollectionCreatedEvent(42), CollectionCreatedEvent(43)>>,
         <<MintedEvent, CollectionCreatedEvent(43), ExtrinsicSuccess>> }
  ELSE { <<MintedEvent, ExtrinsicSuccess>> }

\* result.events: EventRecords, each wrapping its event with the phase it ran in
EventRecords(list) == [i \in DOMAIN list |-> [phase |-> i, event |-> list[i]]]

\* a SubmittableResult handed to the callback of main.ts:175
StatusSet(kind) ==
  { [kind |-> "ready", events |-> <<>>], [kind |-> "error", events |-> <<>>] }
  \cup { [kind |-> k, events |-> EventRecords(l)] :
           k \in {"inBlock", "finalized"}, l \in EventLists(kind) }

isError(result) == result.kind = "error"
isInBlock(result) == result.kind = "inBlock"
isFinalized(result) == result.kind = "finalized"

----------------------------------------------------------------------------
(* Event Matcher: main.ts:249-284 *)

\* eventIs.is(event)
Is(eventIs, event) == event.section = eventIs.section /\ event.method = eventIs.method

\* FindIndex taking the last match where find takes the first
FindIndex_LastMatch(events, eventIs) ==
  IF \E i \in DOMAIN events : Is(eventIs, events[i])
  THEN CHOOSE i \in DOMAIN events :
         Is(eventIs, events[i]) /\ \A k \in (i + 1)..Len(events) : ~Is(eventIs, events[k])
  ELSE 0

\* events.find(event => eventIs.is(event)): the index of the first match, 0 if none
FindIndex(events, eventIs) ==
  IF \E i \in DOMAIN events : Is(eventIs, events[i])
  THEN CHOOSE i \in DOMAIN events :
         Is(eventIs, events[i]) /\ \A k \in 1..(i - 1) : ~Is(eventIs, events[k])
  ELSE 0

\* the needle as <<event>>, undefined as <<>>
getEventFromEvents(events, eventIs) ==
  LET i == FindIndex(events, eventIs)
      needle == IF i = 0 THEN <<>> ELSE <<events[i]>>
  IN IF needle = <<>> \/ ~Is(eventIs, needle[1]) THEN <<>> ELSE needle

\* the needle as [ok |-> TRUE, value |-> event], or the error it throws
getEventFromEventsOrThrow(events, eventIs) ==
  LET needle == getEventFromEvents(events, eventIs)
  IN IF needle = <<>>
     THEN [ok |-> FALSE, value |-> <<>>, error |-> "unable to find event " \o eventIs.method]
     ELSE [ok |-> TRUE, value |-> needle, error |-> ""]

----------------------------------------------------------------------------
(* MultiTokens client: src/unnamed/part_001 *)

createCollection(maxTokenCount, maxTokenSupply) ==
  [call |-> "multiTokens.createCollection",
   maxTokenCount |-> maxTokenCount, maxTokenSupply |-> maxTokenSupply,
   forceSingleMint |-> FALSE]

\* fixMintCreateToken leaves a createToken without unitPrice as it is
fixMintCreateToken(createToken) == createToken

batchMint(id, recipients) ==
  [call |-> "multiTokens.batchMint", collectionId |-> id,
   recipients |-> [i \in DOMAIN recipients |->
                     [accountId |-> recipients[i].accountId,
                      createToken |-> fixMintCreateToken(recipients[i].createToken)]]]

\* BatchPayload numbering its items from startTokenId + 1
BatchPayload_SkipsFirst(id, startTokenId, count) ==
  [i \in 1..count |->
     LET tokenId == startTokenId + i
     IN [accountId |-> "testAccount",
         createToken |->
           [tokenId |-> tokenId, initialSupply |-> 1,
            attributes |->
              << [key |-> "id", value |-> Decimal(tokenId)],
                 [key |-> "name", value |-> <<"test-">> \o Decimal(tokenId)],
                 [key |-> "description", value |-> <<"test-">> \o Decimal(tokenId)],
                 [key |-> "collectionId", value |-> Decimal(id)] >>]]]

\* batchPayload of main.ts:110-127
BatchPayload(id, startTokenId, count) ==
  [i \in 1..count |->
     LET tokenId == startTokenId + (i - 1)
     IN [accountId |-> "testAccount",
         createToken |->
           [tokenId |-> tokenId, initialSupply |-> 1,
            attributes |->
              << [key |-> "id", value |-> Decimal(tokenId)],
                 [key |-> "name", value |-> <<"test-">> \o Decimal(tokenId)],
                 [key |-> "description", value |-> <<"test-">> \o Decimal(tokenId)],
                 [key |-> "collectionId", value |-> Decimal(id)] >>]]]

----------------------------------------------------------------------------
(* The program state as one record, and the configuration *)

State ==
  [pc |-> pc, collection |-> collection, j |-> j, phase |-> phase,
   created |-> created, collectionId |-> collectionId, batches |-> batches, call |-> call,
   returning |-> returning, attempts |-> attempts, nOnce |-> nOnce, chainHead |-> chainHead]

Set(s) ==
  /\ pc' = s.pc
  /\ collection' = s.collection
  /\ j' = s.j
  /\ phase' = s.phase
  /\ created' = s.created
  /\ collectionId' = s.collectionId
  /\ batches' = s.batches
  /\ call' = s.call
  /\ returning' = s.returning
  /\ attempts' = s.attempts
  /\ nOnce' = s.nOnce
  /\ chainHead' = s.chainHead
  /\ cfg' = cfg
  /\ matcher' = matcher

COLLECTION_COUNT == cfg.collectionCount
TOKEN_COUNT_PER_COLLECTION == cfg.tokenCountPerCollection
TOKEN_COUNT_IN_BATCH == cfg.tokenCountInBatch

\* main.ts:60-61
fullBatches == JsFloorDiv(TOKEN_COUNT_PER_COLLECTION, TOKEN_COUNT_IN_BATCH)
remainingTokens == JsMod(TOKEN_COUNT_PER_COLLECTION, TOKEN_COUNT_IN_BATCH)

----------------------------------------------------------------------------
(* Promises *)

Resolve(att, events) ==
  IF att.promise = "pending"
  THEN [att EXCEPT !.promise = "fulfilled", !.events = events]
  ELSE att

Reject(att, reason) ==
  IF att.promise = "pending"
  THEN [att EXCEPT !.promise = "rejected", !.reason = reason]
  ELSE att

----------------------------------------------------------------------------
(* utils: signAndSendOnce, signAndSend, signAndSendReturningEvent *)

\* a status stream that can still deliver: subscribed and not exhausted
\* (statuses: those delivered until the promise settled; late: those after)
StreamOpen(att) ==
  att.stage = "sent" /\ Len(att.statuses) + att.late < MaxStatuses

\* the earlier invocations followed while invocation id runs: every unsettled
\* one, and of the MaxOpen latest ones those whose stream can still deliver
Tracked(atts, id) ==
  {a \in DOMAIN atts :
     atts[a].promise = "pending" \/ (a >= id - MaxOpen /\ StreamOpen(atts[a]))}

\* main.ts:164-170: the promise is created and its executor runs up to the
\* chain-head fetch
signAndSendOnce(s, kind, submitExtrinsic) ==
  LET id == s.nOnce + 1
      att == [kind |-> kind, submitExtrinsic |-> submitExtrinsic, stage |-> "header",
              promise |-> "pending", events |-> <<>>, reason |-> "",
              statuses |-> <<>>, late |-> 0, broadcasts |-> <<>>]
  IN [s EXCEPT !.nOnce = id,
               !.attempts = [a \in Tracked(s.attempts, id) \cup {id} |->
                               IF a = id THEN att ELSE s.attempts[a]],
               !.call.tries = @ + 1]

\* SignAndBroadcast signing with the block fetched before its own fetch
SignAndBroadcast_StaleHeader(att, header) ==
  [att EXCEPT !.stage = "sent",
              !.broadcasts = Append(@, [submitExtrinsic |-> att.submitExtrinsic,
                                        nonce |-> AutoNonce,
                                        era |-> [current |-> header.number - 1,
                                                 period |-> EraPeriod],
                                        blockHash |-> <<"hash", header.number - 1>>])]

\* main.ts:174-175: the executor after the chain-head fetch answered with header
SignAndBroadcast(att, header) ==
  [att EXCEPT !.stage = "sent",
              !.broadcasts = Append(@, [submitExtrinsic |-> att.submitExtrinsic,
                                        nonce |-> AutoNonce,
                                        era |-> [current |-> header.number,
                                                 period |-> EraPeriod],
                                        blockHash |-> header.hash])]

\* StatusCallback resolving on 'finalized' only
StatusCallback_OnlyFinalized(att, result) ==
  IF isError(result)
  THEN Reject(att, "transaction error")
  ELSE IF isFinalized(result)
       THEN Resolve(att, [i \in DOMAIN result.events |-> result.events[i].event])
       ELSE att

\* StatusCallback without the isError branch
StatusCallback_IgnoresError(att, result) ==
  IF isInBlock(result) \/ isFinalized(result)
  THEN Resolve(att, [i \in DOMAIN result.events |-> result.events[i].event])
  ELSE att

\* StatusCallback signing and sending the transaction again on an error status
StatusCallback_Rebroadcasts(att, result) ==
  IF isError(result)
  THEN [att EXCEPT !.broadcasts = Append(@, @[1])]
  ELSE IF isInBlock(result) \/ isFinalized(result)
       THEN Resolve(att, [i \in DOMAIN result.events |-> result.events[i].event])
       ELSE att

\* main.ts:175-182: the status callback
StatusCallback(att, result) ==
  IF isError(result)
  THEN Reject(att, "transaction error")
  ELSE IF isInBlock(result) \/ isFinalized(result)
       THEN Resolve(att, [i \in DOMAIN result.events |-> result.events[i].event])
       ELSE att

\* main.ts:183-185: the sign-and-broadcast promise rejected
CatchSendError(att) == Reject([att EXCEPT !.stage = "sendRejected"], "send error")

\* signAndSend without the test of its attempt parameter
signAndSend_NoCeiling(s, kind, submitExtrinsic, attempt) ==
  signAndSendOnce([s EXCEPT !.call = [kind |-> kind, attempt |-> attempt, tries |-> 0,
                                      result |-> "pending", reason |-> ""]],
                  kind, submitExtrinsic)

\* main.ts:201-211: up to the await of signAndSendOnce, or the throw of line 208
signAndSend(s, kind, submitExtrinsic, attempt) ==
  LET s1 == [s EXCEPT !.call = [kind |-> kind, attempt |-> attempt, tries |-> 0,
                                result |-> "pending", reason |-> ""]]
  IN IF attempt > MaxAttempt
     THEN [s1 EXCEPT !.call.result = "rejected",
                     !.call.reason = "unable to send transaction"]
     ELSE signAndSendOnce(s1, kind, submitExtrinsic)

\* main.ts:211-214: the awaited signAndSendOnce settled; signAndSend settles alike
signAndSendSettled(s, att) ==
  [s EXCEPT !.call.result = att.promise, !.call.reason = att.reason]

\* main.ts:229-235: the call up to its await of signAndSend
signAndSendReturningEvent(s, kind, submitExtrinsic, eventIs) ==
  LET s1 == signAndSend([s EXCEPT !.returning =
                            [eventIs |-> eventIs, result |-> "pending", event |-> <<>>,
                             reason |-> "", events |-> <<>>, matched |-> 0]],
                        kind, submitExtrinsic, 0)
  IN IF s1.call.result = "rejected"
     THEN [s1 EXCEPT !.returning.result = "rejected", !.returning.reason = s1.call.reason]
     ELSE s1

\* signAndSendReturningEventSettled looking for the needle whether or not the
\* submission succeeded
signAndSendReturningEventSettled_AlwaysMatches(s, att) ==
  LET found == getEventFromEventsOrThrow(att.events, s.returning.eventIs)
  IN [s EXCEPT !.returning.result = IF found.ok THEN "returned" ELSE "rejected",
               !.returning.event = found.value,
               !.returning.reason = found.error,
               !.returning.events = att.events,
               !.returning.matched = @ + 1]

\* main.ts:235-236: the awaited signAndSend settled as att did; on success the
\* needle is looked up in its events, on failure the rejection passes through
signAndSendReturningEventSettled(s, att) ==
  IF att.promise = "fulfilled"
  THEN LET found == getEventFromEventsOrThrow(att.events, s.returning.eventIs)
       IN [s EXCEPT !.returning.result = IF found.ok THEN "returned" ELSE "rejected",
                    !.returning.event = found.value,
                    !.returning.reason = found.error,
                    !.returning.events = att.events,
                    !.returning.matched = @ + 1]
  ELSE [s EXCEPT !.returning.result = "rejected", !.returning.reason = att.reason]

----------------------------------------------------------------------------
(* main and mintBatch *)

\* an uncaught rejection ends main() before line 88
Abort(s) == [s EXCEPT !.pc = "aborted"]

\* main.ts:44-54: the loop test, then the creation call up to its await
ForCollection(s) ==
  IF s.collection <= COLLECTION_COUNT
  THEN LET s1 == signAndSendReturningEvent(s, "create",
                                           createCollection(TOKEN_COUNT_PER_COLLECTION, 1),
                                           CollectionCreated)
       IN IF s1.returning.result = "rejected" THEN Abort(s1)
          ELSE [s1 EXCEPT !.pc = "awaitCreate"]
  ELSE [s EXCEPT !.pc = "completed"]

\* main.ts:110-129: the payload is built, then mintBatch awaits the chain head
mintBatch(s, id, startTokenId, count) ==
  [s EXCEPT !.pc = "mintHeader",
            !.batches = Append(@, [collection |-> s.collection,
                                   collectionId |-> id,
                                   startTokenId |-> startTokenId,
                                   count |-> count,
                                   batchPayload |-> BatchPayload(id, startTokenId, count),
                                   currentBlockNumber |-> <<>>,
                                   submitExtrinsic |-> <<>>,
                                   outcome |-> "building"])]

\* MintRemaining with the remainder starting on the last id of the full batches
MintRemaining_Overlap(s) ==
  IF JsGreater(remainingTokens, 0)
  THEN mintBatch([s EXCEPT !.phase = "rest"], s.collectionId[1],
                 fullBatches.v * TOKEN_COUNT_IN_BATCH, remainingTokens.v)
  ELSE ForCollection([s EXCEPT !.collection = @ + 1])

\* main.ts:76-86: the remainder call, or the end of the loop body
MintRemaining(s) ==
  IF JsGreater(remainingTokens, 0)
  THEN mintBatch([s EXCEPT !.phase = "rest"], s.collectionId[1],
                 fullBatches.v * TOKEN_COUNT_IN_BATCH + 1, remainingTokens.v)
  ELSE ForCollection([s EXCEPT !.collection = @ + 1])

\* MintFull passing the loop counter of main.ts:44 where the identifier belongs
MintFull_LoopIndexAsId(s) ==
  IF JsLess(s.j, fullBatches)
  THEN mintBatch(s, s.collection, s.j * TOKEN_COUNT_IN_BATCH + 1,
                 TOKEN_COUNT_IN_BATCH)
  ELSE MintRemaining(s)

\* MintFull walking the full batches from the last one down to the first
MintFull_Descending(s) ==
  IF JsLess(s.j, fullBatches)
  THEN mintBatch(s, s.collectionId[1],
                 (fullBatches.v - 1 - s.j) * TOKEN_COUNT_IN_BATCH + 1,
                 TOKEN_COUNT_IN_BATCH)
  ELSE MintRemaining(s)

\* main.ts:64-73: the loop test and the call of one full batch
MintFull(s) ==
  IF JsLess(s.j, fullBatches)
  THEN mintBatch(s, s.collectionId[1], s.j * TOKEN_COUNT_IN_BATCH + 1,
                 TOKEN_COUNT_IN_BATCH)
  ELSE MintRemaining(s)

\* mintBatch returned (main.ts:135-142): back in the loop of main
AfterMintBatch(s, outcome) ==
  LET s1 == [s EXCEPT !.batches[Len(s.batches)].outcome = outcome]
  IN IF s.phase = "full"
     THEN MintFull([s1 EXCEPT !.j = @ + 1])
     ELSE ForCollection([s1 EXCEPT !.collection = @ + 1])

\* MintSubmit without the await of main.ts:134: mintBatch returns at once
MintSubmit_NoAwait(s, latestHeader) ==
  LET n == Len(s.batches)
      b == s.batches[n]
      submitExtrinsic == batchMint(b.collectionId, b.batchPayload)
      s1 == [s EXCEPT !.batches[n].currentBlockNumber = <<latestHeader.number>>,
                      !.batches[n].submitExtrinsic = <<submitExtrinsic>>,
                      !.batches[n].outcome = "submitted"]
      s2 == signAndSend(s1, "mint", submitExtrinsic, 0)
  IN AfterMintBatch(s2, "minted")

\* main.ts:129-134: the chain head arrived; the transaction is built and submitted
MintSubmit(s, latestHeader) ==
  LET n == Len(s.batches)
      b == s.batches[n]
      submitExtrinsic == batchMint(b.collectionId, b.batchPayload)
      s1 == [s EXCEPT !.batches[n].currentBlockNumber = <<latestHeader.number>>,
                      !.batches[n].submitExtrinsic = <<submitExtrinsic>>,
                      !.batches[n].outcome = "submitted"]
      s2 == signAndSend(s1, "mint", submitExtrinsic, 0)
  IN IF s2.call.result = "rejected" THEN AfterMintBatch(s2, "failed")
     ELSE [s2 EXCEPT !.pc = "awaitMint"]

\* main.ts:49-61: signAndSendReturningEvent settled; main() ends on its
\* rejection and goes on to the batches with the event it returned
AfterCreate(s) ==
  IF s.returning.result = "rejected" THEN Abort(s)
  ELSE MintFull([s EXCEPT !.created = [collection |-> s.collection,
                                       events |-> s.returning.events,
                                       collectionCreatedEvent |-> s.returning.event],
                          !.collectionId = <<Number(s.returning.event[1].data[1])>>,
                          !.j = 0, !.phase = "full", !.batches = <<>>])

\* Resume without the try/catch of main.ts:133-141: a failed batch ends main()
Resume_NoCatch(s, att) ==
  LET s1 == signAndSendSettled(s, att)
  IN IF att.kind = "create"
     THEN AfterCreate(signAndSendReturningEventSettled(s1, att))
     ELSE IF att.promise # "fulfilled" THEN Abort(s1)
     ELSE AfterMintBatch(s1, "minted")

\* Resume skipping a collection whose creation failed instead of ending main()
Resume_SkipsFailedCollection(s, att) ==
  LET s1 == signAndSendSettled(s, att)
      s2 == signAndSendReturningEventSettled(s1, att)
  IN IF att.kind = "create"
     THEN IF s2.returning.result = "rejected"
          THEN ForCollection([s2 EXCEPT !.collection = @ + 1])
          ELSE AfterCreate(s2)
     ELSE AfterMintBatch(s1, IF att.promise = "fulfilled" THEN "minted" ELSE "failed")

\* the continuation of main() once the signAndSend call it awaits has settled
Resume(s, att) ==
  LET s1 == signAndSendSettled(s, att)
  IN IF att.kind = "create"
     THEN AfterCreate(signAndSendReturningEventSettled(s1, att))
     ELSE AfterMintBatch(s1, IF att.promise = "fulfilled" THEN "minted" ELSE "failed")

----------------------------------------------------------------------------
(* Initial states and steps *)

\* a loop of main.ts:64 that never ends is followed for LoopCap batches
LoopCap == MaxTokens + 1

Configurations ==
  [collectionCount : 0..MaxCollections,
   tokenCountPerCollection : 0..MaxTokens,
   tokenCountInBatch : (1..MaxBatch) \cup {BatchLimit, BatchLimit + 1},
   botKey : BOOLEAN]

\* no direct call of the Event Matcher
NoMatcherCall ==
  [events |-> <<>>, eventIs |-> CollectionCreated, stage |-> "idle", needle |-> <<>>,
   orThrow |-> [ok |-> FALSE, value |-> <<>>, error |-> ""]]

\* the module is loaded: nothing has run yet
Loaded ==
  /\ pc = "start"
  /\ collection = 0
  /\ j = 0
  /\ phase = "full"
  /\ created = [collection |-> 0, events |-> <<>>, collectionCreatedEvent |-> <<>>]
  /\ collectionId = <<>>
  /\ batches = <<>>
  /\ call = [kind |-> "", attempt |-> 0, tries |-> 0, result |-> "", reason |-> ""]
  /\ returning = [eventIs |-> CollectionCreated, result |-> "", event |-> <<>>,
                  reason |-> "", events |-> <<>>, matched |-> 0]
  /\ attempts = <<>>
  /\ nOnce = 0
  /\ chainHead = 1

Init ==
  /\ cfg \in Configurations
  /\ matcher = NoMatcherCall
  /\ Loaded

\* api.rpc.chain.getHeader() answers with the current head; the chain then grows
Header(s) == [number |-> s.chainHead, hash |-> <<"hash", s.chainHead>>]

\* main.ts:14-22: the checks made when the module is loaded
Startup ==
  /\ pc = "start"
  /\ Set([State EXCEPT !.pc = IF TOKEN_COUNT_IN_BATCH > BatchLimit THEN "exit1"
                              ELSE IF ~cfg.botKey THEN "exit1"
                              ELSE "connect"])

\* main.ts:25-44: the connection, the address format, then the first collection
Connect(answer) ==
  /\ pc = "connect"
  /\ Set(CASE answer = "connected" -> ForCollection([State EXCEPT !.collection = 1])
           [] answer = "noSs58Format" -> [State EXCEPT !.pc = "exit1"]
           [] OTHER -> Abort(State))

\* the chain-head fetch of mintBatch (main.ts:129) answers
MintHeader ==
  /\ pc = "mintHeader"
  /\ Len(batches) <= LoopCap
  /\ Set(MintSubmit([State EXCEPT !.chainHead = @ + 1], Header(State)))

\* the chain-head fetch of mintBatch rejects: mintBatch throws before its try
MintHeaderFail ==
  /\ pc = "mintHeader"
  /\ Set(Abort(State))

\* the chain-head fetch of signAndSendOnce (main.ts:170) answers
OnceHeader(a) ==
  /\ a \in DOMAIN attempts
  /\ attempts[a].stage = "header"
  /\ Set([State EXCEPT !.attempts[a] = SignAndBroadcast(@, Header(State)),
                       !.chainHead = @ + 1])

\* the chain-head fetch of signAndSendOnce rejects inside the async executor:
\* nothing settles the promise of main.ts:169
OnceHeaderFail(a) ==
  /\ a \in DOMAIN attempts
  /\ attempts[a].stage = "header"
  /\ Set([State EXCEPT !.attempts[a].stage = "headerFailed"])

\* the invocation main() is suspended on
Awaited(s, a) == a = s.nOnce /\ s.pc \in {"awaitCreate", "awaitMint"}

\* a macrotask changed invocation a into att: main() resumes if that settled
\* the promise it awaits
Deliver(s, a, att) ==
  LET s1 == [s EXCEPT !.attempts[a] = att]
  IN IF s.attempts[a].promise = "pending" /\ att.promise # "pending" /\ Awaited(s, a)
     THEN Resume(s1, att)
     ELSE s1

\* the sign-and-broadcast promise of main.ts:174 rejects
SendRejected(a) ==
  /\ a \in DOMAIN attempts
  /\ attempts[a].stage = "sent"
  /\ attempts[a].statuses = <<>>
  /\ attempts[a].promise = "pending"
  /\ Set(Deliver(State, a, CatchSendError(attempts[a])))

\* the status stream of invocation a delivers result
Status(a, result) ==
  /\ pc \notin {"exit1", "completed"}
  /\ a \in DOMAIN attempts
  /\ StreamOpen(attempts[a])
  /\ result \in StatusSet(attempts[a].kind)
  /\ LET att == StatusCallback(IF attempts[a].promise = "pending"
                               THEN [attempts[a] EXCEPT !.statuses = Append(@, result)]
                               ELSE [attempts[a] EXCEPT !.late = @ + 1],
                               result)
     IN Set(Deliver(State, a, att))

Next ==
  \/ Startup
  \/ \E answer \in {"connected", "noSs58Format", "connectError"} : Connect(answer)
  \/ MintHeader
  \/ MintHeaderFail
  \/ \E a \in DOMAIN attempts : OnceHeader(a)
  \/ \E a \in DOMAIN attempts : OnceHeaderFail(a)
  \/ \E a \in DOMAIN attempts : SendRejected(a)
  \/ \E a \in DOMAIN attempts :
       \E result \in StatusSet(attempts[a].kind) : Status(a, result)

Spec == Init /\ [][Next]_vars

\* the event loop runs every continuation that is ready, and every request to
\* the network is answered in the end
LiveSpec == Spec /\ WF_vars(Next)

----------------------------------------------------------------------------
(* The Event Matcher called on its own: utils exports getEventFromEvents and
   getEventFromEventsOrThrow *)

EventAlphabet ==
  {ExtrinsicSuccess, MintedEvent, ForeignCreated,
   CollectionCreatedEvent(42), CollectionCreatedEvent(43)}

EventSequences == UNION {[1..n -> EventAlphabet] : n \in 0..MaxEvents}

Descriptors ==
  {CollectionCreated,
   [section |-> "marketplace", method |-> "CollectionCreated"],
   [section |-> "system", method |-> "ExtrinsicSuccess"],
   [section |-> "multiTokens", method |-> "Burned"]}

MatcherInit ==
  /\ cfg = [collectionCount |-> 1, tokenCountPerCollection |-> 1,
            tokenCountInBatch |-> 1, botKey |-> TRUE]
  /\ matcher \in [events : EventSequences, eventIs : Descriptors, stage : {"input"},
                   needle : {<<>>}, orThrow : {NoMatcherCall.orThrow}]
  /\ Loaded

\* getEventFromEvents(events, eventIs) is called
Find ==
  /\ matcher.stage = "input"
  /\ matcher' = [matcher EXCEPT !.stage = "found",
                                !.needle = getEventFromEvents(matcher.events, matcher.eventIs)]
  /\ UNCHANGED <<cfg, pc, collection, j, phase, created, collectionId, batches, call,
                 returning, attempts, nOnce, chainHead>>

\* getEventFromEventsOrThrow(events, eventIs) is called on the same arguments
FindOrFail ==
  /\ matcher.stage = "found"
  /\ matcher' = [matcher EXCEPT !.stage = "done",
                                !.orThrow = getEventFromEventsOrThrow(matcher.events,
                                                                      matcher.eventIs)]
  /\ UNCHANGED <<cfg, pc, collection, j, phase, created, collectionId, batches, call,
                 returning, attempts, nOnce, chainHead>>

MatcherNext == Find \/ FindOrFail

MatcherSpec == MatcherInit /\ [][MatcherNext]_vars

----------------------------------------------------------------------------
(* signAndSend called on its own, with any attempt parameter: utils exports it *)

\* the values of the attempt parameter around the test of main.ts:207
AttemptValues == {0, MaxAttempt, MaxAttempt + 1, MaxAttempt + 2}

SubmitterInit ==
  /\ cfg = [collectionCount |-> 1, tokenCountPerCollection |-> 1,
            tokenCountInBatch |-> 1, botKey |-> TRUE]
  /\ matcher = NoMatcherCall
  /\ Loaded

\* signAndSend(origin, submitExtrinsic, attempt, api) is called by a caller
\* that awaits each call before the next
CallSignAndSend(kind, attempt) ==
  /\ call.result # "pending"
  /\ attempt <= MaxAttempt => nOnce < MaxCalls
  /\ Set(signAndSend(State, kind,
                     IF kind = "create" THEN createCollection(1, 1)
                     ELSE batchMint(1, BatchPayload(1, nOnce + 1, 1)),
                     attempt))

\* main.ts:211-214: the signAndSendOnce awaited by the call has settled
CallSettled ==
  /\ call.result = "pending"
  /\ nOnce \in DOMAIN attempts
  /\ attempts[nOnce].promise # "pending"
  /\ Set(signAndSendSettled(State, attempts[nOnce]))

SubmitterNext ==
  \/ \E kind \in {"create", "mint"}, attempt \in AttemptValues :
       CallSignAndSend(kind, attempt)
  \/ CallSettled
  \/ \E a \in DOMAIN attempts : OnceHeader(a)
  \/ \E a \in DOMAIN attempts : OnceHeaderFail(a)
  \/ \E a \in DOMAIN attempts : SendRejected(a)
  \/ \E a \in DOMAIN attempts :
       \E result \in StatusSet(attempts[a].kind) : Status(a, result)

SubmitterSpec == SubmitterInit /\ [][SubmitterNext]_vars

----------------------------------------------------------------------------
(* The program started with a batch size below 1 *)

\* parseInt of main.ts:12 yields any integer the environment spells
LowConfigurations ==
  [collectionCount : 0..MaxCollections,
   tokenCountPerCollection : 0..MaxTokens,
   tokenCountInBatch : (0 - MinBatch)..0,
   botKey : BOOLEAN]

LowBatchInit ==
  /\ cfg \in LowConfigurations
  /\ matcher = NoMatcherCall
  /\ Loaded

LowBatchSpec == LowBatchInit /\ [][Next]_vars

----------------------------------------------------------------------------
(* Retrying Submitter *)

\* C1: a signAndSend call recovers from up to 10 failed single attempts: it
\* never ends in failure after fewer than 11 invocations of signAndSendOnce,
\* and a call that made more than one invocation can still end in Success.
C1_RetryRecovers ==
  call.result = "rejected" => call.tries >= MaxAttempt + 1

\* C2: a signAndSend call that fails has invoked signAndSendOnce exactly 11
\* times and fails with 'unable to send transaction', not with the failure of
\* a single attempt.
C2_ExhaustionAfterEleven ==
  call.result = "rejected" =>
    /\ call.tries = MaxAttempt + 1
    /\ call.reason = "unable to send transaction"

----------------------------------------------------------------------------
(* Batch Planner and Mint Orchestrator *)

\* every batch of the collection of collectionId has been processed
PlanDone == collectionId # <<>> /\ pc \in {"awaitCreate", "completed"}

\* ceil(total / size) for size >= 1
CeilDiv(total, size) == (total + size - 1) \div size

RECURSIVE SumCounts(_)
SumCounts(bs) == IF bs = <<>> THEN 0 ELSE bs[1].count + SumCounts(Tail(bs))

\* C3: the (startTokenId, count) pairs passed to mintBatch for one collection:
\* every count is in 1..maxBatchSize, the first start is 1, each next start is
\* the previous start plus the previous count; once the collection is done
\* the counts sum to total, there are floor(total/maxBatchSize) entries of
\* count maxBatchSize followed by one of count total mod maxBatchSize iff that
\* is positive, and none when total = 0.
C3_PlanShape ==
  LET total == TOKEN_COUNT_PER_COLLECTION
      size == TOKEN_COUNT_IN_BATCH
      n == Len(batches)
  IN /\ \A i \in 1..n : batches[i].count \in 1..size
     /\ n > 0 => batches[1].startTokenId = 1
     /\ \A i \in 1..(n - 1) :
          batches[i + 1].startTokenId = batches[i].startTokenId + batches[i].count
     /\ PlanDone =>
          /\ SumCounts(batches) = total
          /\ n = (total \div size) + (IF total % size > 0 THEN 1 ELSE 0)
          /\ \A i \in 1..(total \div size) : batches[i].count = size
          /\ total % size > 0 => batches[n].count = total % size
          /\ total = 0 => n = 0

\* C3 witness: a finished plan of full batches followed by a shorter remainder
C3_Witness ==
  /\ PlanDone
  /\ Len(batches) >= 2
  /\ batches[Len(batches)].count < TOKEN_COUNT_IN_BATCH
  /\ batches[1].count = TOKEN_COUNT_IN_BATCH

\* the positions (batch, item) of the mint-batch transactions built so far
BuiltItems ==
  {p \in (DOMAIN batches) \X (1..(MaxTokens + 1)) :
     /\ batches[p[1]].submitExtrinsic # <<>>
     /\ p[2] \in DOMAIN batches[p[1]].submitExtrinsic[1].recipients}

ItemAt(p) == batches[p[1]].submitExtrinsic[1].recipients[p[2]].createToken

\* C4: the mint-batch transactions built for the created collection c carry
\* token ids of 1..T only, none twice, are all addressed to c (in the call and
\* in each item's collectionId attribute); once the collection is done there
\* are ceil(T/B) of them and every id of 1..T is in exactly one.
C4_MintCoverage ==
  LET total == TOKEN_COUNT_PER_COLLECTION
      size == TOKEN_COUNT_IN_BATCH
  IN /\ \A i \in DOMAIN batches :
          batches[i].submitExtrinsic # <<>> =>
             batches[i].submitExtrinsic[1].collectionId = collectionId[1]
     /\ \A p \in BuiltItems :
          /\ ItemAt(p).tokenId \in 1..total
          /\ \A k \in DOMAIN ItemAt(p).attributes :
               ItemAt(p).attributes[k].key = "collectionId" =>
                 Number(ItemAt(p).attributes[k].value) = collectionId[1]
          /\ \E k \in DOMAIN ItemAt(p).attributes :
               ItemAt(p).attributes[k].key = "collectionId"
     /\ \A p, q \in BuiltItems : ItemAt(p).tokenId = ItemAt(q).tokenId => p = q
     /\ PlanDone =>
          /\ \A i \in DOMAIN batches : batches[i].submitExtrinsic # <<>>
          /\ Len(batches) = CeilDiv(total, size)
          /\ \A t \in 1..total : \E p \in BuiltItems : ItemAt(p).tokenId = t

\* C4 witness: a finished collection of several tokens minted in several batches
C4_Witness ==
  /\ PlanDone
  /\ TOKEN_COUNT_PER_COLLECTION >= 3
  /\ Len(batches) >= 2
  /\ Cardinality(BuiltItems) = TOKEN_COUNT_PER_COLLECTION

\* the i-th entry of the plan for the current configuration
PlanStart(i) == (i - 1) * TOKEN_COUNT_IN_BATCH + 1
PlanCount(i) ==
  IF i * TOKEN_COUNT_IN_BATCH <= TOKEN_COUNT_PER_COLLECTION
  THEN TOKEN_COUNT_IN_BATCH
  ELSE TOKEN_COUNT_PER_COLLECTION - (i - 1) * TOKEN_COUNT_IN_BATCH

\* whatever the outcomes of the earlier batches, batch i has the planned
\* offset, length and collection id, and every batch but the one in progress
\* is recorded as minted or failed
C5_Absorbed ==
  /\ \A i \in DOMAIN batches :
       /\ batches[i].startTokenId = PlanStart(i)
       /\ batches[i].count = PlanCount(i)
       /\ batches[i].collectionId = collectionId[1]
       /\ i < Len(batches) => batches[i].outcome \in {"minted", "failed"}
  /\ PlanDone =>
       /\ Len(batches) = CeilDiv(TOKEN_COUNT_PER_COLLECTION, TOKEN_COUNT_IN_BATCH)
       /\ \A i \in DOMAIN batches : batches[i].outcome \in {"minted", "failed"}

\* the step in which the submission of batch n settles: the batch is recorded
\* as minted or failed (failed iff the call was rejected) and main() goes on
\* to batch n + 1, or past the last batch to the next collection or the end
C5_Continues ==
  LET n == Len(batches)
      last == CeilDiv(TOKEN_COUNT_PER_COLLECTION, TOKEN_COUNT_IN_BATCH)
  IN (pc = "awaitMint" /\ pc' # "awaitMint") =>
       /\ Len(batches') >= n
       /\ batches'[n].outcome \in {"minted", "failed"}
       /\ nOnce \in DOMAIN attempts' =>
            (batches'[n].outcome = "failed" <=> attempts'[nOnce].promise = "rejected")
       /\ IF n < last
          THEN /\ pc' = "mintHeader"
               /\ Len(batches') = n + 1
               /\ batches'[n + 1].startTokenId = PlanStart(n + 1)
               /\ batches'[n + 1].count = PlanCount(n + 1)
          ELSE /\ collection' = collection + 1
               /\ batches' = [batches EXCEPT ![n].outcome = batches'[n].outcome]
               /\ IF collection' <= COLLECTION_COUNT
                  THEN pc' = "awaitCreate" /\ nOnce' = nOnce + 1 /\ call'.kind = "create"
                  ELSE pc' = "completed"

\* C5: a mint batch whose submission fails is recorded and absorbed: the
\* remaining batches of the collection and the remaining collections are
\* still built and submitted, with unchanged offsets, lengths and collection id.
C5_PartialFailureAbsorbed == []C5_Absorbed /\ [][C5_Continues]_vars

\* C5 witness: the first collection of two is done, one of its batches failed,
\* later ones were minted, and the next collection is being created
C5_Witness ==
  /\ pc = "awaitCreate"
  /\ collection = 2
  /\ Len(batches) >= 3
  /\ batches[2].outcome = "failed"
  /\ \A i \in DOMAIN batches : i # 2 => batches[i].outcome = "minted"

\* C6: a mint batch exists only for a collection whose creation returned the
\* 'collection created' event of its transaction, and every batch (payload
\* and transaction) uses the first data field of that event as collection id.
C6_IdentifierBeforeMinting ==
  batches # <<>> =>
    /\ created.collectionCreatedEvent # <<>>
    /\ collectionId # <<>>
    /\ LET event == created.collectionCreatedEvent[1]
       IN /\ Is(CollectionCreated, event)
          /\ \E i \in DOMAIN created.events : created.events[i] = event
          /\ \A i \in DOMAIN batches :
               /\ batches[i].collection = created.collection
               /\ batches[i].collectionId = Number(event.data[1])
               /\ batches[i].submitExtrinsic # <<>> =>
                    batches[i].submitExtrinsic[1].collectionId = Number(event.data[1])

\* C6 witness: batches built for the second collection, whose identifier came
\* from an event that was not the first of its transaction
C6_Witness ==
  /\ batches # <<>>
  /\ created.collection = 2
  /\ created.events[1] # created.collectionCreatedEvent[1]
  /\ batches[1].submitExtrinsic # <<>>

Unresolved(att) == att.promise = "pending"
Broadcast(att) == att.broadcasts # <<>>

\* C7: at most one transaction is broadcast with its submitter call still
\* unresolved, and no invocation is started (hence none signed with the
\* automatic nonce) while an earlier one is unresolved.
C7_Serialized ==
  /\ Cardinality({a \in DOMAIN attempts :
                    Broadcast(attempts[a]) /\ Unresolved(attempts[a])}) <= 1
  /\ \A a, b \in DOMAIN attempts : a < b => ~Unresolved(attempts[a])
  /\ \A a \in DOMAIN attempts :
       \A i \in DOMAIN attempts[a].broadcasts : attempts[a].broadcasts[i].nonce = AutoNonce

\* C7 witness: a later transaction in flight, broadcast and not yet resolved,
\* with a status already delivered to it
C7_Witness ==
  \E a \in DOMAIN attempts :
    /\ a >= 3
    /\ Broadcast(attempts[a])
    /\ Unresolved(attempts[a])
    /\ attempts[a].statuses # <<>>

----------------------------------------------------------------------------
(* Transaction Submitter (single attempt) *)

Included(result) == result.kind \in {"inBlock", "finalized"}

LastStatus(att) == att.statuses[Len(att.statuses)]

\* the statuses delivered while the promise was pending were all 'ready', but
\* for the one that settled it
OnlyReadyBefore(att) ==
  \A i \in 1..(Len(att.statuses) - 1) : att.statuses[i].kind = "ready"

\* an invocation is fulfilled exactly when the first status other than 'ready'
\* was 'in block' or 'finalized', with the events of that status, in order
C8_FirstInclusionResolves ==
  \A a \in DOMAIN attempts :
    LET att == attempts[a]
    IN /\ OnlyReadyBefore(att)
       /\ att.promise = "fulfilled" <=>
            (att.statuses # <<>> /\ Included(LastStatus(att)))
       /\ att.promise = "fulfilled" =>
            /\ Len(att.events) = Len(LastStatus(att).events)
            /\ \A i \in DOMAIN att.events : att.events[i] = LastStatus(att).events[i].event

\* a settled invocation keeps its result whatever is delivered afterwards
C8_ResultKept ==
  \A a \in (DOMAIN attempts) \cap (DOMAIN attempts') :
    attempts[a].promise # "pending" =>
      /\ attempts'[a].promise = attempts[a].promise
      /\ attempts'[a].events = attempts[a].events
      /\ attempts'[a].reason = attempts[a].reason

\* C8: signAndSendOnce resolves to Success(events) the first time its status
\* stream reports 'in block' or 'finalized', with exactly the ordered events of
\* that status, and no later status changes the result.
C8_SingleAttemptSuccess == []C8_FirstInclusionResolves /\ [][C8_ResultKept]_vars

\* C8 witness: an invocation resolved with several events, and a status was
\* delivered to it afterwards
C8_Witness ==
  \E a \in DOMAIN attempts :
    /\ attempts[a].promise = "fulfilled"
    /\ Len(attempts[a].events) >= 2
    /\ attempts[a].late >= 1

\* an invocation is rejected exactly when the first status other than 'ready'
\* was an error or when the sign-and-broadcast promise rejected, and the
\* signAndSend call that awaits it is rejected with the same reason
C9_ErrorRejects ==
  \A a \in DOMAIN attempts :
    LET att == attempts[a]
    IN /\ OnlyReadyBefore(att)
       /\ att.promise = "rejected" <=>
            \/ att.stage = "sendRejected"
            \/ att.statuses # <<>> /\ LastStatus(att).kind = "error"
       /\ att.promise = "rejected" =>
            att.reason = IF att.stage = "sendRejected" THEN "send error"
                         ELSE "transaction error"
       /\ (att.promise = "rejected" /\ a = nOnce) =>
            call.result = "rejected" /\ call.reason = att.reason

\* a rejected invocation never becomes a Success
C9_StaysRejected ==
  \A a \in (DOMAIN attempts) \cap (DOMAIN attempts') :
    attempts[a].promise = "rejected" => attempts'[a].promise = "rejected"

\* C9: signAndSendOnce resolves to Failure, never to Success, when its status
\* stream reports an error before any 'in block' or 'finalized', or when the
\* sign-and-broadcast call rejects; the caller sees a rejected call.
C9_SingleAttemptFailure == []C9_ErrorRejects /\ [][C9_StaysRejected]_vars

\* C9 witness: an error status after a 'ready' rejected the invocation and the
\* signAndSend call of a mint batch with it
C9_Witness ==
  \E a \in DOMAIN attempts :
    /\ attempts[a].promise = "rejected"
    /\ Len(attempts[a].statuses) = 2
    /\ LastStatus(attempts[a]).kind = "error"
    /\ attempts[a].kind = "mint"
    /\ call.result = "rejected"

\* C10: an invocation of signAndSendOnce broadcasts at most one transaction:
\* none until its chain-head fetch has answered, exactly one (its own
\* transaction) from then on, whatever statuses or errors it receives.
C10_OneBroadcast ==
  \A a \in DOMAIN attempts :
    LET att == attempts[a]
    IN /\ Len(att.broadcasts) <= 1
       /\ att.stage \in {"header", "headerFailed"} <=> Len(att.broadcasts) = 0
       /\ att.stage \in {"sent", "sendRejected"} <=> Len(att.broadcasts) = 1
       /\ \A i \in DOMAIN att.broadcasts :
            att.broadcasts[i].submitExtrinsic = att.submitExtrinsic

\* C10 witness: an invocation that received an error status and a later status
\* has still broadcast once
C10_Witness ==
  \E a \in DOMAIN attempts :
    /\ attempts[a].promise = "rejected"
    /\ attempts[a].statuses # <<>>
    /\ attempts[a].late >= 1
    /\ Len(attempts[a].broadcasts) = 1

----------------------------------------------------------------------------
(* Event Matcher *)

\* the event at index i has the pallet and the name of the descriptor
MatchAt(events, eventIs, i) ==
  events[i].section = eventIs.section /\ events[i].method = eventIs.method

\* some event of the list matches the descriptor, by pallet and by name
Matches(events, eventIs) == \E i \in DOMAIN events : MatchAt(events, eventIs, i)

\* find returned the event at the lowest matching index, and nothing iff no
\* event matches; findOrFail returned the same event, or threw the error that
\* names the descriptor iff no event matches
C11_Finds ==
  LET events == matcher.events
      eventIs == matcher.eventIs
      needle == matcher.needle
      orThrow == matcher.orThrow
  IN /\ matcher.stage \in {"found", "done"} =>
          /\ needle = <<>> <=> ~Matches(events, eventIs)
          /\ needle # <<>> =>
               /\ Len(needle) = 1
               /\ \E i \in DOMAIN events :
                    /\ MatchAt(events, eventIs, i)
                    /\ \A k \in 1..(i - 1) : ~MatchAt(events, eventIs, k)
                    /\ needle[1] = events[i]
     /\ matcher.stage = "done" =>
          /\ orThrow.ok <=> Matches(events, eventIs)
          /\ orThrow.ok => orThrow.value = needle /\ orThrow.error = ""
          /\ ~orThrow.ok =>
               /\ orThrow.value = <<>>
               /\ orThrow.error = "unable to find event " \o eventIs.method

\* the calls leave their arguments as they were
C11_SequenceKept ==
  matcher.stage # "idle" =>
    matcher'.events = matcher.events /\ matcher'.eventIs = matcher.eventIs

\* C11: getEventFromEvents returns the event at the lowest index whose
\* (pallet, name) matches the descriptor and undefined iff none matches;
\* getEventFromEventsOrThrow returns the same event and throws 'unable to find
\* event <name>' iff none matches; neither changes the event sequence.
C11_EventMatcher == []C11_Finds /\ [][C11_SequenceKept]_vars

\* C11 witness: both calls returned the second of three events, which follows
\* an event of the same name of another pallet and precedes another match
C11_Witness ==
  /\ matcher.stage = "done"
  /\ Len(matcher.events) = 3
  /\ matcher.eventIs = CollectionCreated
  /\ matcher.events[1] = ForeignCreated
  /\ MatchAt(matcher.events, matcher.eventIs, 3)
  /\ matcher.events[3] # matcher.events[2]
  /\ matcher.orThrow.ok
  /\ matcher.orThrow.value = <<matcher.events[2]>>

----------------------------------------------------------------------------
(* Typed-Event Submitter *)

\* C12: signAndSendReturningEvent returns only an event of the event list of
\* the transaction it submitted that matches the descriptor; when the
\* submission fails it fails with the same failure and looks for no event;
\* when the submission succeeds without a matching event it fails with
\* 'unable to find event <name>'.
C12_TypedEventSubmitter ==
  /\ returning.result = "returned" =>
       /\ returning.matched = 1
       /\ Len(returning.event) = 1
       /\ \E i \in DOMAIN returning.events : returning.events[i] = returning.event[1]
       /\ returning.event[1].section = returning.eventIs.section
       /\ returning.event[1].method = returning.eventIs.method
       /\ (nOnce \in DOMAIN attempts /\ attempts[nOnce].kind = "create") =>
            /\ attempts[nOnce].promise = "fulfilled"
            /\ attempts[nOnce].events = returning.events
            /\ attempts[nOnce].submitExtrinsic =
                 createCollection(TOKEN_COUNT_PER_COLLECTION, 1)
  /\ returning.result = "rejected" =>
       /\ call.kind = "create"
       /\ returning.event = <<>>
       /\ IF call.result = "rejected"
          THEN returning.matched = 0 /\ returning.reason = call.reason
          ELSE /\ call.result = "fulfilled"
               /\ returning.matched = 1
               /\ ~Matches(returning.events, returning.eventIs)
               /\ returning.events = attempts[nOnce].events
               /\ returning.reason = "unable to find event CollectionCreated"
  /\ returning.result = "pending" =>
       returning.matched = 0 /\ call.kind = "create" /\ call.result = "pending"

\* C12 witness: the event returned is the second of three events of the
\* creation transaction, behind an event of the same name of another pallet
C12_Witness ==
  /\ returning.result = "returned"
  /\ Len(returning.events) = 3
  /\ returning.events[1].method = returning.eventIs.method
  /\ returning.events[2] = returning.event[1]
  /\ nOnce \in DOMAIN attempts
  /\ attempts[nOnce].kind = "create"

----------------------------------------------------------------------------
(* Fatal collection creation *)

\* a failed creation has ended main(): no batch was built for its collection
C13_Fatal ==
  returning.result = "rejected" =>
    /\ pc = "aborted"
    /\ \A i \in DOMAIN batches : batches[i].collection < collection
    /\ created.collection < collection

\* the step that settles a creation either ends main() on the spot or records
\* the event the creation returned
C13_AbortsAtOnce ==
  (/\ pc = "awaitCreate"
   /\ attempts[nOnce].promise = "pending"
   /\ nOnce \in DOMAIN attempts' => attempts'[nOnce].promise # "pending") =>
     \/ /\ pc' = "aborted"
        /\ returning'.result = "rejected"
        /\ UNCHANGED <<collection, batches, nOnce, created>>
     \/ /\ created'.collection = collection
        /\ Matches(created'.collectionCreatedEvent, CollectionCreated)

\* once main() has ended nothing is built, submitted or signalled any more
C13_NothingAfter ==
  pc = "aborted" =>
    /\ pc' = "aborted"
    /\ UNCHANGED <<collection, batches, nOnce, created, call, returning, chainHead>>

\* C13: a failed create-collection step (a rejected submission, or a
\* successful transaction without the 'collection created' event) is fatal:
\* no mint batch is built or submitted for that collection, no later
\* collection is created and 'Minting completed' is not reached.
C13_CreationFailureFatal ==
  []C13_Fatal /\ [][C13_AbortsAtOnce /\ C13_NothingAfter]_vars

\* C13 witness: the first creation of several succeeded without the event; the
\* run has ended with collections and tokens left, and a later status of the
\* transaction has arrived since
C13_Witness ==
  /\ pc = "aborted"
  /\ returning.result = "rejected"
  /\ returning.matched = 1
  /\ collection = 1
  /\ COLLECTION_COUNT >= 2
  /\ TOKEN_COUNT_PER_COLLECTION >= 1
  /\ attempts[nOnce].late >= 1

----------------------------------------------------------------------------
(* Configuration *)

\* C14: a batch size outside 1..250 (0 and negative values included) ends
\* the process at startup: nothing is ever submitted or built with it, so
\* every mint batch built has between 1 and 250 items.
C14_BatchSizeEnforced ==
  /\ TOKEN_COUNT_IN_BATCH \notin 1..BatchLimit => nOnce = 0 /\ batches = <<>>
  /\ \A i \in DOMAIN batches :
       /\ batches[i].count \in 1..BatchLimit
       /\ Len(batches[i].batchPayload) \in 1..BatchLimit

----------------------------------------------------------------------------
(* Run completion *)

\* an invocation that will never see an inclusion or an error: nothing was
\* broadcast, or the status stream ended without either
NeverIncluded(att) ==
  /\ att.promise = "pending"
  /\ att.stage = "headerFailed" \/ (att.stage = "sent" /\ ~StreamOpen(att))

\* what the claim leaves aside: a configuration error, a failed connection,
\* a failed collection creation, a submission that never reaches 'in block',
\* 'finalized' or an error
C15_Excused ==
  \/ pc = "exit1"
  \/ pc = "aborted" /\ collection = 0
  \/ returning.result = "rejected"
  \/ \E a \in DOMAIN attempts : NeverIncluded(attempts[a])

\* at the completion signal every batch has been recorded as minted or failed
C15_AllProcessed ==
  pc = "completed" =>
    /\ collection = COLLECTION_COUNT + 1
    /\ \A i \in DOMAIN batches : batches[i].outcome \in {"minted", "failed"}
    /\ (collectionId # <<>> /\ TOKEN_COUNT_IN_BATCH >= 1) =>
         Len(batches) = CeilDiv(TOKEN_COUNT_PER_COLLECTION, TOKEN_COUNT_IN_BATCH)

\* C15: when every creation succeeds and every network round trip is
\* answered, the run reaches 'Minting completed' with every batch of every
\* collection processed, whichever batches failed, and signals it once.
C15_RunCompletion ==
  /\ <>(pc = "completed" \/ C15_Excused)
  /\ []C15_AllProcessed
  /\ [][pc = "completed" => pc' = "completed"]_vars

----------------------------------------------------------------------------
(* Chain-head fetch failures *)

\* C17: a signAndSendOnce whose chain-head fetch failed has broadcast nothing
\* and is rejected, not left unresolved; a mintBatch whose chain-head fetch
\* failed counts as a failed batch and main() goes on with the next one.
C17_HeadFetchFailureSettles ==
  /\ \A a \in DOMAIN attempts :
       attempts[a].stage = "headerFailed" =>
         attempts[a].broadcasts = <<>> /\ attempts[a].promise = "rejected"
  /\ \A i \in DOMAIN batches :
       batches[i].outcome = "building" => (i = Len(batches) /\ pc = "mintHeader")

----------------------------------------------------------------------------
(* Submission order *)

Processed(batch) == batch.outcome \in {"minted", "failed"}

\* C16: the mint batches of a collection are submitted in strictly ascending
\* start order, each one only after the submitter call of the one before has
\* settled, and the creation of the next collection is submitted only after
\* every batch of the collection before has been processed.
C16_SubmissionOrder ==
  /\ \A i, k \in DOMAIN batches :
       i < k =>
         /\ batches[i].startTokenId < batches[k].startTokenId
         /\ Processed(batches[i])
  /\ \A i \in DOMAIN batches :
       batches[i].outcome = "submitted" =>
         /\ pc = "awaitMint"
         /\ call.kind = "mint" /\ call.result = "pending"
         /\ attempts[nOnce].promise = "pending"
         /\ attempts[nOnce].submitExtrinsic = batches[i].submitExtrinsic[1]
  /\ (pc = "awaitCreate" /\ collection >= 2) =>
       /\ created.collection = collection - 1
       /\ \A i \in DOMAIN batches :
            batches[i].collection = collection - 1 /\ Processed(batches[i])
       /\ SumCounts(batches) = TOKEN_COUNT_PER_COLLECTION

\* C16 witness: the creation of the second collection has been broadcast after
\* the batches of the first, several of them, were processed
C16_Witness ==
  /\ pc = "awaitCreate"
  /\ collection = 2
  /\ attempts[nOnce].stage = "sent"
  /\ Len(batches) >= 2
  /\ batches[1].outcome = "minted"
  /\ batches[Len(batches)].outcome = "failed"

----------------------------------------------------------------------------
(* Validity window *)

\* every broadcast carries the automatic nonce, period 1024, and the number
\* and hash of one chain head, which no other invocation and no mintBatch
\* was answered with
C19_OwnHeader ==
  \A a \in DOMAIN attempts :
    \A i \in DOMAIN attempts[a].broadcasts :
      LET sent == attempts[a].broadcasts[i]
      IN /\ sent.nonce = AutoNonce
         /\ sent.era.period = EraPeriod
         /\ sent.era.current < chainHead
         /\ sent.blockHash = <<"hash", sent.era.current>>
         /\ \A b \in DOMAIN attempts :
              \A k \in DOMAIN attempts[b].broadcasts :
                attempts[b].broadcasts[k].era.current = sent.era.current => b = a
         /\ \A n \in DOMAIN batches :
              batches[n].currentBlockNumber # <<sent.era.current>>

\* the chain head a broadcast is signed with is the one fetched in that step,
\* by the invocation that broadcasts
C19_FetchedInside ==
  \A a \in (DOMAIN attempts) \cap (DOMAIN attempts') :
    attempts'[a].broadcasts # attempts[a].broadcasts =>
      /\ attempts[a].stage = "header"
      /\ attempts'[a].broadcasts =
           Append(attempts[a].broadcasts,
                  [submitExtrinsic |-> attempts[a].submitExtrinsic,
                   nonce |-> AutoNonce,
                   era |-> [current |-> chainHead, period |-> EraPeriod],
                   blockHash |-> <<"hash", chainHead>>])
      /\ chainHead' = chainHead + 1

\* C19: every broadcast of signAndSendOnce is signed with nonce -1 and a
\* mortal era of period 1024 whose block number and hash are those of the
\* chain head fetched by that invocation, never those fetched by an earlier
\* invocation or by mintBatch.
C19_FreshValidityWindow == []C19_OwnHeader /\ [][C19_FetchedInside]_vars

\* C19 witness: a mint transaction broadcast with the head that follows the
\* one mintBatch fetched
C19_Witness ==
  /\ pc = "awaitMint"
  /\ Len(batches) >= 2
  /\ attempts[nOnce].broadcasts # <<>>
  /\ attempts[nOnce].broadcasts[1].era.current =
       batches[Len(batches)].currentBlockNumber[1] + 1

----------------------------------------------------------------------------
(* Attempt ceiling *)

\* the broadcasts made by the invocations of the latest signAndSend call
BroadcastsOfCall ==
  {p \in (DOMAIN attempts) \X (1..(MaxAttempt + 2)) :
     /\ p[1] > nOnce - call.tries
     /\ p[2] \in DOMAIN attempts[p[1]].broadcasts}

\* a call makes at most 11 invocations and broadcasts; one entered with an
\* attempt above 10 is rejected with 'unable to send transaction' and has
\* invoked nothing
C18_Ceiling ==
  /\ call.tries <= MaxAttempt + 1
  /\ Cardinality(BroadcastsOfCall) <= MaxAttempt + 1
  /\ (call.kind # "" /\ call.attempt > MaxAttempt) =>
       /\ call.result = "rejected"
       /\ call.reason = "unable to send transaction"
       /\ call.tries = 0
       /\ BroadcastsOfCall = {}
  /\ (call.kind # "" /\ call.attempt <= MaxAttempt) => call.tries = 1

\* the step of a call entered with an attempt above 10 fetches no chain head
\* and starts no invocation
C18_NothingSent ==
  (call' # call /\ call'.attempt > MaxAttempt) =>
    UNCHANGED <<attempts, nOnce, chainHead>>

\* C18: a signAndSend call never causes more than 11 broadcasts of its
\* transaction, and a call entered with an attempt counter above 10 fails
\* with 'unable to send transaction' without fetching the chain head or
\* broadcasting anything.
C18_AttemptCeiling == []C18_Ceiling /\ [][C18_NothingSent]_vars

\* C18 witness: after a call that broadcast and failed, a call entered with
\* attempt 11 has been rejected
C18_Witness ==
  /\ call.attempt = MaxAttempt + 1
  /\ call.result = "rejected"
  /\ nOnce >= 1
  /\ nOnce \in DOMAIN attempts
  /\ attempts[nOnce].promise = "rejected"
  /\ Len(attempts[nOnce].broadcasts) = 1

====
